---- MODULE Spec2Model ----
(***************************************************************************)
(* Model of scripts/dependency-miner.py: the tolerant manifest parser      *)
(* _parse_dependency_blocks and the commit traversal, change classifier    *)
(* and CSV output of mine_repository.                                      *)
(*                                                                         *)
(* Text is modelled as a sequence of tokens: a tag token stands for the    *)
(* literal "<name>" or "</name>", a text token for a maximal non-empty run *)
(* of characters other than "<".  Identifier, version and key strings are  *)
(* sequences of one-character strings, so that trimming and the            *)
(* concatenation that forms a key are computed, not assumed.               *)
(***************************************************************************)
EXTENDS Integers, Sequences, FiniteSets, TLC

VARIABLES pc, ncommits, nfiles, commit, f, before, after, ki, rows, seen,
          origin, out, text, blocks, deps

vars == <<pc, ncommits, nfiles, commit, f, before, after, ki, rows, seen,
          origin, out, text, blocks, deps>>

(***************************************************************************)
(* Strings                                                                 *)
(***************************************************************************)

\* str.strip() treats these characters as whitespace
Whitespace == {" ", "\n"}

RECURSIVE LStrip(_)
LStrip(s) ==
    IF s # <<>> /\ Head(s) \in Whitespace THEN LStrip(Tail(s)) ELSE s

RECURSIVE RStrip(_)
RStrip(s) ==
    IF s # <<>> /\ s[Len(s)] \in Whitespace
    THEN RStrip(SubSeq(s, 1, Len(s) - 1))
    ELSE s

\* s.strip()
Strip(s) == RStrip(LStrip(s))

\* Python's None where a string is expected; no character sequence equals it
NoneV == <<"None">>

\* str(v)
Str(v) == IF v = NoneV THEN <<"N", "o", "n", "e">> ELSE v

(***************************************************************************)
(* Tokens and texts                                                        *)
(***************************************************************************)

Tag(name) == [tag |-> name, txt |-> <<>>]

Txt(s) == [tag |-> "text", txt |-> s]

\* a file content: None, or a string
NullText == [null |-> TRUE, toks |-> <<>>]

SomeText(toks) == [null |-> FALSE, toks |-> toks]

\* not pom_xml_text or not pom_xml_text.strip()
IsBlank(t) ==
    \/ t.null
    \/ \A i \in 1..Len(t.toks) :
           t.toks[i].tag = "text" /\ Strip(t.toks[i].txt) = <<>>

(***************************************************************************)
(* _parse_dependency_blocks                                                *)
(***************************************************************************)

\* first index >= from of a tag token, 0 when there is none
RECURSIVE IndexOf(_, _, _)
IndexOf(toks, name, from) ==
    IF from > Len(toks) THEN 0
    ELSE IF toks[from].tag = name THEN from
    ELSE IndexOf(toks, name, from + 1)

\* re.findall(r"<dependency>(.*?)</dependency>", text, re.DOTALL):
\* leftmost, non-greedy, non-overlapping
RECURSIVE FindallDependency(_)
FindallDependency(toks) ==
    LET i == IndexOf(toks, "dependency", 1) IN
    IF i = 0 THEN <<>>
    ELSE LET j == IndexOf(toks, "/dependency", i + 1) IN
         IF j = 0 THEN <<>>
         ELSE <<SubSeq(toks, i + 1, j - 1)>>
                  \o FindallDependency(SubSeq(toks, j + 1, Len(toks)))

\* does "<name>([^<]+)</name>" match at token p of the block
MatchesAt(block, name, p) ==
    /\ p + 2 <= Len(block)
    /\ block[p].tag = name
    /\ block[p + 1].tag = "text"
    /\ block[p + 1].txt # <<>>
    /\ block[p + 2].tag = "/" \o name

\* re.search(r"<name>([^<]+)</name>", block): <<>> is None (no match),
\* <<s>> a match whose group(1) is s
RECURSIVE SearchFrom(_, _, _)
SearchFrom(block, name, p) ==
    IF p > Len(block) THEN <<>>
    ELSE IF MatchesAt(block, name, p) THEN <<block[p + 1].txt>>
    ELSE SearchFrom(block, name, p + 1)

Search(block, name) == SearchFrom(block, name, 1)

\* f"{g.group(1).strip()}:{a.group(1).strip()}"
MakeKey(g, a) == Strip(g) \o <<":">> \o Strip(a)

\* position of key k in the dict d (a sequence of entries in insertion
\* order), 0 when k is not a key
RECURSIVE KeyIndex(_, _, _)
KeyIndex(d, k, i) ==
    IF i > Len(d) THEN 0
    ELSE IF d[i].k = k THEN i
    ELSE KeyIndex(d, k, i + 1)

\* k in d
HasKey(d, k) == KeyIndex(d, k, 1) # 0

\* d[k], for k in d
Get(d, k) == d[KeyIndex(d, k, 1)].v

\* d[k] = v: a new key goes last, an existing key keeps its position
DictSet(d, k, v) ==
    LET i == KeyIndex(d, k, 1) IN
    IF i = 0 THEN Append(d, [k |-> k, v |-> v])
    ELSE [d EXCEPT ![i] = [k |-> k, v |-> v]]

\* BlockStep with the test on v dropped: a block without a version is
\* entered with None
BlockStepKeepNull(d, block) ==
    LET g == Search(block, "groupId")
        a == Search(block, "artifactId")
        v == Search(block, "version")
    IN IF g # <<>> /\ a # <<>>
       THEN DictSet(d, MakeKey(g[1], a[1]),
                    IF v # <<>> THEN Strip(v[1]) ELSE NoneV)
       ELSE d

\* the body of the loop over the blocks: lines 81-86
BlockStep(d, block) ==
    LET g == Search(block, "groupId")
        a == Search(block, "artifactId")
        v == Search(block, "version")
    IN IF g # <<>> /\ a # <<>> /\ v # <<>>
       THEN DictSet(d, MakeKey(g[1], a[1]), Strip(v[1]))
       ELSE d

RECURSIVE FoldBlocks(_, _)
FoldBlocks(d, bs) ==
    IF bs = <<>> THEN d ELSE FoldBlocks(BlockStep(d, Head(bs)), Tail(bs))

\* _parse_dependency_blocks(pom_xml_text)
ParseDependencyBlocks(t) ==
    IF IsBlank(t) THEN <<>>
    ELSE FoldBlocks(<<>>, FindallDependency(t.toks))

(***************************************************************************)
(* Change classifier: the two loops over the keys, lines 115-125           *)
(***************************************************************************)

Added == <<"added">>

Removed == <<"removed">>

\* "changed from " + str(x) + " to " + str(y)
Changed(x, y) == <<"changed from ">> \o Str(x) \o <<" to ">> \o Str(y)

\* DescAfter with the two versions of a change in the wrong order
DescAfterSwapped(b, a, k) ==
    IF ~HasKey(b, k) THEN <<Added>>
    ELSE IF Get(b, k) # Get(a, k) THEN <<Changed(Get(a, k), Get(b, k))>>
    ELSE <<>>

\* the description appended for key k of after, <<>> when none is: lines 116-121
DescAfter(b, a, k) ==
    IF ~HasKey(b, k) THEN <<Added>>
    ELSE IF Get(b, k) # Get(a, k) THEN <<Changed(Get(b, k), Get(a, k))>>
    ELSE <<>>

\* DescBefore that takes an empty after for "nothing known"
DescBeforeUnlessEmpty(b, a, k) ==
    IF a # <<>> /\ ~HasKey(a, k) THEN <<Removed>> ELSE <<>>

\* DescBefore that reports a key as removed when its version changed, too
DescBeforeOrChanged(b, a, k) ==
    IF ~HasKey(a, k) \/ Get(a, k) # Get(b, k) THEN <<Removed>> ELSE <<>>

\* the description appended for key k of before, <<>> when none is: lines 123-125
DescBefore(b, a, k) ==
    IF ~HasKey(a, k) THEN <<Removed>> ELSE <<>>

\* (commit.hash, commit.author_date, commit.author.name, k, description)
Row(c, k, desc) == <<c.hash, c.author_date, c.author, k, desc>>

(***************************************************************************)
(* Commit Walker (PyDriller): what it yields                               *)
(***************************************************************************)

MaxCommits == 2

MaxModified == 3

Authors == {"ann"}

\* the i-th commit yielded has a hash of its own
CommitNo(i, who) ==
    [hash |-> "c" \o ToString(i), author_date |-> [day |-> i], author |-> who]

NoCommit == [hash |-> "", author_date |-> [day |-> 0], author |-> ""]

\* ModifiedFile: new_path as its components, source_code_before, source_code
ModFile(path, old, new) ==
    [path |-> path, source_code_before |-> old, source_code |-> new]

NoFile == ModFile(<<>>, NullText, NullText)

\* ModifiedFile.filename: the last component of the path
Filename(file) ==
    IF file.path = <<>> THEN "" ELSE file.path[Len(file.path)]

\* IsTarget that lets every .xml file through
IsTargetAnyXml(file) == Filename(file) \in {"pom.xml", "build.xml"}

\* not (f.filename != "pom.xml"): line 111
IsTarget(file) == Filename(file) = "pom.xml"

Paths == {<<"pom.xml">>, <<"sub", "pom.xml">>, <<"build.xml">>}

NL == Txt(<<"\n">>)

\* one element of a dependency block: "<name>s</name>\n", nothing when
\* val = <<>>
RenderField(name, val) ==
    IF val = <<>> THEN <<>>
    ELSE <<Tag(name), Txt(val[1]), Tag("/" \o name), NL>>

\* "<dependency>\n ... </dependency>\n" for a block shape
RenderBlock(shape) ==
    <<Tag("dependency"), NL>>
        \o RenderField("groupId", shape.g)
        \o RenderField("artifactId", shape.a)
        \o RenderField("version", shape.v)
        \o <<Tag("/dependency"), NL>>

RECURSIVE RenderBlocks(_)
RenderBlocks(shapes) ==
    IF shapes = <<>> THEN <<>>
    ELSE RenderBlock(Head(shapes)) \o RenderBlocks(Tail(shapes))

Shape(g, a, v) == [g |-> g, a |-> a, v |-> v]

Manifest(shapes) ==
    SomeText(<<Tag("project"), NL>> \o RenderBlocks(shapes)
                 \o <<Tag("/project")>>)

EmptyText == SomeText(<<>>)

BlankText == SomeText(<<Txt(<<" ", "\n">>)>>)

\* a truncated manifest: the dependency block is never closed
TruncatedText ==
    SomeText(<<Tag("project"), Tag("dependency")>>
                 \o RenderField("groupId", <<<<"a">>>>)
                 \o RenderField("artifactId", <<<<"a">>>>)
                 \o RenderField("version", <<<<"1">>>>))

\* the manifests the traversal meets
WalkTexts ==
    { NullText,
      Manifest(<<Shape(<<<<"a">>>>, <<<<"a">>>>, <<<<"1">>>>),
                 Shape(<<<<"a">>>>, <<<<"b">>>>, <<<<"1">>>>)>>),
      Manifest(<<Shape(<<<<"a">>>>, <<<<"a">>>>, <<<<"2">>>>),
                 Shape(<<<<"b">>>>, <<<<"a">>>>, <<<<"1">>>>)>>) }

WalkFiles ==
    { ModFile(p, old, new) : p \in Paths, old \in WalkTexts, new \in WalkTexts }

(***************************************************************************)
(* mine_repository: traversal, lines 107-125                               *)
(***************************************************************************)

NoOutput == [exists |-> FALSE, lines |-> <<>>]

Init ==
    /\ pc = "next_commit"
    /\ ncommits = 0
    /\ nfiles = 0
    /\ commit = NoCommit
    /\ f = NoFile
    /\ before = <<>>
    /\ after = <<>>
    /\ ki = 1
    /\ rows = <<>>
    /\ seen = {}
    /\ origin = <<>>
    /\ out = NoOutput
    /\ text = NullText
    /\ blocks = <<>>
    /\ deps = <<>>

parserVars == <<text, blocks, deps>>

\* line 109: the walker yields its next commit
NextCommit ==
    /\ pc = "next_commit"
    /\ ncommits < MaxCommits
    /\ \E who \in Authors : commit' = CommitNo(ncommits + 1, who)
    /\ ncommits' = ncommits + 1
    /\ pc' = "next_file"
    /\ UNCHANGED <<nfiles, f, before, after, ki, rows, seen, origin, out>>
    /\ UNCHANGED parserVars

\* line 109: the walker is exhausted
EndCommits ==
    /\ pc = "next_commit"
    /\ pc' = "open"
    /\ UNCHANGED <<ncommits, nfiles, commit, f, before, after, ki, rows, seen,
                   origin, out>>
    /\ UNCHANGED parserVars

\* lines 109-110: the walker raises; nothing catches it
WalkerFails ==
    /\ pc \in {"next_commit", "next_file"}
    /\ pc' = "failed"
    /\ UNCHANGED <<ncommits, nfiles, commit, f, before, after, ki, rows, seen,
                   origin, out>>
    /\ UNCHANGED parserVars

\* lines 110-114: the next modified file of the commit; a file of another
\* name is skipped (continue).  "or {}" replaces an empty dict by an empty
\* dict.
NextFile(file) ==
    /\ pc = "next_file"
    /\ nfiles < MaxModified
    /\ f' = file
    /\ nfiles' = nfiles + 1
    /\ IF IsTarget(file)
       THEN /\ before' = ParseDependencyBlocks(file.source_code_before)
            /\ after' = ParseDependencyBlocks(file.source_code)
            /\ ki' = 1
            /\ pc' = "after_loop"
       ELSE UNCHANGED <<before, after, ki, pc>>
    /\ UNCHANGED <<ncommits, commit, rows, seen, origin, out>>
    /\ UNCHANGED parserVars

\* line 110: the commit has no more modified files
EndFiles ==
    /\ pc = "next_file"
    /\ pc' = "next_commit"
    /\ UNCHANGED <<ncommits, nfiles, commit, f, before, after, ki, rows, seen,
                   origin, out>>
    /\ UNCHANGED parserVars

\* Emit without seen.add(commit.hash) for a removal
EmitForgetRemoved(k, d) ==
    IF d = <<>> THEN UNCHANGED <<rows, seen, origin>>
    ELSE /\ rows' = Append(rows, Row(commit, k, d[1]))
         /\ seen' = IF d[1] = Removed THEN seen ELSE seen \cup {commit.hash}
         /\ origin' = Append(origin, nfiles)

\* Emit with rows.insert(0, ...) for rows.append(...)
EmitPrepend(k, d) ==
    IF d = <<>> THEN UNCHANGED <<rows, seen, origin>>
    ELSE /\ rows' = <<Row(commit, k, d[1])>> \o rows
         /\ seen' = seen \cup {commit.hash}
         /\ origin' = <<nfiles>> \o origin

\* rows.append(...); seen.add(commit.hash) for a description, nothing for <<>>
Emit(k, d) ==
    IF d = <<>> THEN UNCHANGED <<rows, seen, origin>>
    ELSE /\ rows' = Append(rows, Row(commit, k, d[1]))
         /\ seen' = seen \cup {commit.hash}
         /\ origin' = Append(origin, nfiles)

\* lines 115-121: one iteration of "for k in after"
AfterKey ==
    /\ pc = "after_loop"
    /\ ki <= Len(after)
    /\ Emit(after[ki].k, DescAfter(before, after, after[ki].k))
    /\ ki' = ki + 1
    /\ UNCHANGED <<pc, ncommits, nfiles, commit, f, before, after, out>>
    /\ UNCHANGED parserVars

\* line 115 exhausted, line 122 begins
AfterDone ==
    /\ pc = "after_loop"
    /\ ki > Len(after)
    /\ pc' = "before_loop"
    /\ ki' = 1
    /\ UNCHANGED <<ncommits, nfiles, commit, f, before, after, rows, seen,
                   origin, out>>
    /\ UNCHANGED parserVars

\* lines 122-125: one iteration of "for k in before"
BeforeKey ==
    /\ pc = "before_loop"
    /\ ki <= Len(before)
    /\ Emit(before[ki].k, DescBefore(before, after, before[ki].k))
    /\ ki' = ki + 1
    /\ UNCHANGED <<pc, ncommits, nfiles, commit, f, before, after, out>>
    /\ UNCHANGED parserVars

\* line 122 exhausted: back to line 110
BeforeDone ==
    /\ pc = "before_loop"
    /\ ki > Len(before)
    /\ pc' = "next_file"
    /\ UNCHANGED <<ncommits, nfiles, commit, f, before, after, ki, rows, seen,
                   origin, out>>
    /\ UNCHANGED parserVars

(***************************************************************************)
(* mine_repository: the CSV output, lines 126-131                          *)
(***************************************************************************)

Header ==
    <<"Commit Hash", "Commit Date", "Commit Author", "Dependency Name",
      "Type of Change">>

\* str(commit.author_date)
StrDate(d) == "day " \o ToString(d.day)

\* [r[0], str(r[1]), r[2], r[3], r[4]]
CsvRow(r) == <<r[1], StrDate(r[2]), r[3], r[4], r[5]>>

\* CanOpen with the file opened before the loop over the commits
CanOpenEarly == pc \in {"open", "next_commit"} /\ ~out.exists

\* control reaches line 127
CanOpen == pc = "open"

\* line 127: open(output_filename, "w") creates the file, empty
OpenOutput ==
    /\ CanOpen
    /\ out' = [exists |-> TRUE, lines |-> <<>>]
    /\ pc' = IF pc = "open" THEN "header" ELSE pc
    /\ UNCHANGED <<ncommits, nfiles, commit, f, before, after, ki, rows, seen,
                   origin>>
    /\ UNCHANGED parserVars

\* line 129
WriteHeader ==
    /\ pc = "header"
    /\ out' = [out EXCEPT !.lines = <<Header>>]
    /\ pc' = "write_rows"
    /\ UNCHANGED <<ncommits, nfiles, commit, f, before, after, ki, rows, seen,
                   origin>>
    /\ UNCHANGED parserVars

\* lines 130-131: one iteration of "for r in rows"
WriteRow ==
    /\ pc = "write_rows"
    /\ Len(out.lines) <= Len(rows)
    /\ out' = [out EXCEPT !.lines = Append(@, CsvRow(rows[Len(out.lines)]))]
    /\ UNCHANGED <<pc, ncommits, nfiles, commit, f, before, after, ki, rows,
                   seen, origin>>
    /\ UNCHANGED parserVars

\* line 130 exhausted: the file is closed, lines 132-138 print the summary
Finish ==
    /\ pc = "write_rows"
    /\ Len(out.lines) > Len(rows)
    /\ pc' = "done"
    /\ UNCHANGED <<ncommits, nfiles, commit, f, before, after, ki, rows, seen,
                   origin, out>>
    /\ UNCHANGED parserVars

WalkFile == \E file \in WalkFiles : NextFile(file)

Next ==
    \/ NextCommit
    \/ EndCommits
    \/ WalkerFails
    \/ WalkFile
    \/ EndFiles
    \/ AfterKey
    \/ AfterDone
    \/ BeforeKey
    \/ BeforeDone
    \/ OpenOutput
    \/ WriteHeader
    \/ WriteRow
    \/ Finish

Spec == Init /\ [][Next]_vars

TypeOK ==
    /\ pc \in {"next_commit", "next_file", "after_loop", "before_loop", "open",
               "header", "write_rows", "done", "failed"}
    /\ Len(origin) = Len(rows)

(***************************************************************************)
(* _parse_dependency_blocks run on its own, block by block                 *)
(***************************************************************************)

MaxBlocks == 2

\* all sequences over S of length at most n
SeqsUpTo(S, n) == UNION {[1..m -> S] : m \in 0..n}

Absent == <<>>

ParseShapes ==
    { Shape(g, a, v) :
        g \in {Absent, <<<<"a">>>>, <<<<"a", ":", "b">>>>},
        a \in {Absent, <<<<"a">>>>, <<<<"b", ":", "a">>>>, <<<<" ", "a", "\n">>>>},
        v \in {Absent, <<<<"1">>>>, <<<<" ", "2">>>>} }

\* texts that are not well-formed manifests
MalformedTexts ==
    { NullText, EmptyText, BlankText, TruncatedText,
      \* <groupId></groupId>: nothing for [^<]+ to match
      SomeText(<<Tag("dependency"), Tag("groupId"), Tag("/groupId")>>
                   \o RenderField("artifactId", <<<<"a">>>>)
                   \o RenderField("version", <<<<"1">>>>)
                   \o <<Tag("/dependency")>>),
      \* a tag inside the groupId element
      SomeText(<<Tag("dependency"), Tag("groupId"), Txt(<<"a">>), Tag("br"),
                 Tag("/groupId")>>
                   \o RenderField("artifactId", <<<<"a">>>>)
                   \o RenderField("version", <<<<"1">>>>)
                   \o <<Tag("/dependency")>>),
      \* an exclusion with identifiers of its own after the dependency's
      SomeText(<<Tag("dependency")>>
                   \o RenderField("groupId", <<<<"a">>>>)
                   \o RenderField("artifactId", <<<<"a">>>>)
                   \o RenderField("version", <<<<"1">>>>)
                   \o <<Tag("exclusion")>>
                   \o RenderField("groupId", <<<<"b">>>>)
                   \o RenderField("artifactId", <<<<"b">>>>)
                   \o <<Tag("/exclusion"), Tag("/dependency")>>),
      \* a second opening tag before the first block is closed
      SomeText(<<Tag("dependency"), Tag("dependency")>>
                   \o RenderField("groupId", <<<<"a">>>>)
                   \o RenderField("artifactId", <<<<"a">>>>)
                   \o RenderField("version", <<<<"1">>>>)
                   \o <<Tag("/dependency"), Tag("/dependency")>>) }

ParseTexts ==
    MalformedTexts \cup { Manifest(ss) : ss \in SeqsUpTo(ParseShapes, MaxBlocks) }

InitParse ==
    /\ pc = "parse_start"
    /\ text \in ParseTexts
    /\ blocks = <<>>
    /\ deps = <<>>
    /\ ncommits = 0
    /\ nfiles = 0
    /\ commit = NoCommit
    /\ f = NoFile
    /\ before = <<>>
    /\ after = <<>>
    /\ ki = 1
    /\ rows = <<>>
    /\ seen = {}
    /\ origin = <<>>
    /\ out = NoOutput

walkVars ==
    <<ncommits, nfiles, commit, f, before, after, ki, rows, seen, origin, out>>

\* lines 76-80: deps = {}; a blank text returns at once
ParseBegin ==
    /\ pc = "parse_start"
    /\ deps' = <<>>
    /\ IF IsBlank(text)
       THEN pc' = "parse_done" /\ blocks' = <<>>
       ELSE pc' = "parse_loop" /\ blocks' = FindallDependency(text.toks)
    /\ UNCHANGED text
    /\ UNCHANGED walkVars

\* lines 81-86: one iteration of the loop over the blocks
ParseBlock ==
    /\ pc = "parse_loop"
    /\ blocks # <<>>
    /\ deps' = BlockStep(deps, Head(blocks))
    /\ blocks' = Tail(blocks)
    /\ UNCHANGED <<pc, text>>
    /\ UNCHANGED walkVars

\* line 87
ParseReturn ==
    /\ pc = "parse_loop"
    /\ blocks = <<>>
    /\ pc' = "parse_done"
    /\ UNCHANGED <<text, blocks, deps>>
    /\ UNCHANGED walkVars

NextParse == ParseBegin \/ ParseBlock \/ ParseReturn

SpecParse == InitParse /\ [][NextParse]_vars

\* the stepwise run returns what the traversal's call returns
ParseAgrees == pc = "parse_done" => deps = ParseDependencyBlocks(text)

(***************************************************************************)
(* A commit that changes pom.xml, then commits that each revert the one    *)
(* before                                                                  *)
(***************************************************************************)

PairShapes ==
    { Shape(<<<<"a">>>>, <<<<"a">>>>, <<<<"1">>>>),
      Shape(<<<<"a">>>>, <<<<"a">>>>, <<<<"2">>>>),
      Shape(<<<<"a">>>>, <<<<"a">>>>, Absent),
      Shape(<<<<"a">>>>, <<<<"b">>>>, <<<<"1">>>>),
      Shape(<<<<"b">>>>, <<<<"a">>>>, <<<<"1">>>>) }

PairTexts ==
    {NullText, EmptyText, BlankText, TruncatedText}
        \cup { Manifest(ss) : ss \in SeqsUpTo(PairShapes, MaxBlocks) }

PairFile ==
    /\ nfiles = ncommits - 1
    /\ IF nfiles = 0
       THEN \E old \in PairTexts, new \in PairTexts :
                NextFile(ModFile(<<"pom.xml">>, old, new))
       ELSE NextFile(ModFile(<<"pom.xml">>, f.source_code, f.source_code_before))

NextPair ==
    \/ NextCommit
    \/ EndCommits
    \/ WalkerFails
    \/ PairFile
    \/ EndFiles
    \/ AfterKey
    \/ AfterDone
    \/ BeforeKey
    \/ BeforeDone
    \/ OpenOutput
    \/ WriteHeader
    \/ WriteRow
    \/ Finish

SpecPair == Init /\ [][NextPair]_vars

(***************************************************************************)
(* Vocabulary of the properties                                            *)
(***************************************************************************)

KeySet(d) == {d[i].k : i \in 1..Len(d)}

Lookup(d, k) == d[CHOOSE i \in 1..Len(d) : d[i].k = k].v

TextOf(v) == IF v = NoneV THEN <<"N", "o", "n", "e">> ELSE v

ChangedFromTo(x, y) == <<"changed from ">> \o TextOf(x) \o <<" to ">> \o TextOf(y)

IsChanged(d) == d[1] = "changed from "

\* the rows appended while the n-th modified file was current
RECURSIVE RowsFrom(_, _)
RowsFrom(n, i) ==
    IF i > Len(rows) THEN <<>>
    ELSE (IF origin[i] = n THEN <<rows[i]>> ELSE <<>>) \o RowsFrom(n, i + 1)

RowsOf(n) == RowsFrom(n, 1)

\* the descriptions of the n-th file's rows for key k
RECURSIVE DescsFrom(_, _, _)
DescsFrom(n, k, i) ==
    IF i > Len(rows) THEN <<>>
    ELSE (IF origin[i] = n /\ rows[i][4] = k THEN <<rows[i][5]>> ELSE <<>>)
             \o DescsFrom(n, k, i + 1)

DescsFor(n, k) == DescsFrom(n, k, 1)

\* under SpecPair: the only file of the current commit has been classified
FileDone == pc = "next_file" /\ nfiles >= 1 /\ nfiles = ncommits

\* the text holds no complete <dependency>...</dependency> pair at all
NoDependencyBlock(t) ==
    \/ t.null
    \/ ~ \E i, j \in 1..Len(t.toks) :
           i < j /\ t.toks[i].tag = "dependency" /\ t.toks[j].tag = "/dependency"

(***************************************************************************)
(* C1                                                                      *)
(***************************************************************************)

ExpectedDescs(k) ==
    IF k \in KeySet(after) /\ k \notin KeySet(before) THEN <<<<"added">>>>
    ELSE IF k \in KeySet(after) /\ k \in KeySet(before)
            /\ Lookup(before, k) # Lookup(after, k)
         THEN <<ChangedFromTo(Lookup(before, k), Lookup(after, k))>>
    ELSE IF k \in KeySet(before) /\ k \notin KeySet(after) THEN <<<<"removed">>>>
    ELSE <<>>

\* C1: once a pom.xml of a commit is classified, every key of before or after
\* has no event or exactly one, and which one follows the rule: only in after
\* -> added; in both with different versions -> changed from before[k] to
\* after[k]; only in before -> removed; in both with equal versions -> none.
C1_Classification ==
    FileDone =>
        \A k \in KeySet(before) \cup KeySet(after) :
            DescsFor(nfiles, k) = ExpectedDescs(k)

C1_Witness ==
    /\ FileDone
    /\ \E k1, k2, k3 \in KeySet(before) \cup KeySet(after) :
           /\ DescsFor(nfiles, k1) = <<<<"added">>>>
           /\ DescsFor(nfiles, k2) = <<<<"removed">>>>
           /\ Len(DescsFor(nfiles, k3)) = 1
           /\ IsChanged(DescsFor(nfiles, k3)[1])

(***************************************************************************)
(* C2                                                                      *)
(***************************************************************************)

BlocksOf(t) == IF t.null THEN <<>> ELSE FindallDependency(t.toks)

HasGroupAndArtifact(b) ==
    Search(b, "groupId") # <<>> /\ Search(b, "artifactId") # <<>>

DeclaredKey(b) ==
    Strip(Search(b, "groupId")[1]) \o <<":">> \o Strip(Search(b, "artifactId")[1])

DeclaredVersion(b) ==
    IF Search(b, "version") = <<>> THEN NoneV ELSE Strip(Search(b, "version")[1])

\* the i-th block is the last one in the text that declares its key
LastForKey(bs, i) ==
    \A j \in (i + 1)..Len(bs) :
        HasGroupAndArtifact(bs[j]) => DeclaredKey(bs[j]) # DeclaredKey(bs[i])

\* C2: a block with a groupId and an artifactId contributes its key to the
\* snapshot even without a <version>, then with a null version; only a block
\* missing its groupId or artifactId is discarded.
C2_VersionlessKept ==
    pc = "parse_done" =>
        LET bs == BlocksOf(text) IN
        \A i \in 1..Len(bs) :
            (HasGroupAndArtifact(bs[i]) /\ LastForKey(bs, i)) =>
                /\ DeclaredKey(bs[i]) \in KeySet(deps)
                /\ Lookup(deps, DeclaredKey(bs[i])) = DeclaredVersion(bs[i])

(***************************************************************************)
(* C3                                                                      *)
(***************************************************************************)

\* C3 as stated: rows and seen grow only while the current modified file
\* has the path pom.xml exactly.
C3_ExactPath ==
    [][(rows' # rows \/ seen' # seen) => f.path = <<"pom.xml">>]_vars

\* C3 amended: rows and seen grow only while the current modified file has
\* the file name pom.xml (the last component of its path); fetching a file
\* of another name changes neither and starts no classification.
C3_FilenameOnly ==
    [][ /\ (rows' # rows \/ seen' # seen) =>
              (f.path # <<>> /\ f.path[Len(f.path)] = "pom.xml")
        /\ (nfiles' # nfiles /\ f'.path[Len(f'.path)] # "pom.xml") =>
              (rows' = rows /\ seen' = seen /\ pc' = "next_file") ]_vars

C3_Witness ==
    /\ pc = "next_file"
    /\ f.path = <<"build.xml">>
    /\ f.source_code_before.null
    /\ ParseDependencyBlocks(f.source_code) # <<>>
    /\ rows = <<>>
    /\ seen = {}

(***************************************************************************)
(* C4                                                                      *)
(***************************************************************************)

\* C4: in every state of the traversal, seen is exactly the set of commit
\* hashes of the rows accumulated so far.
C4_SeenIsRowCommits == seen = {rows[i][1] : i \in 1..Len(rows)}

C4_Witness ==
    /\ pc = "open"
    /\ ncommits = 2
    /\ seen = {"c2"}
    /\ \E i \in 1..Len(rows) : rows[i][5] = <<"removed">>

(***************************************************************************)
(* C5                                                                      *)
(***************************************************************************)

C5_Ordered ==
    \A i, j \in 1..Len(rows) :
        i < j =>
            /\ rows[i][2].day <= rows[j][2].day
            /\ origin[i] <= origin[j]
            /\ origin[i] = origin[j] =>
                   ~(rows[i][5] = <<"removed">> /\ rows[j][5] # <<"removed">>)
            /\ ( /\ pc \in {"after_loop", "before_loop"}
                 /\ origin[i] = nfiles
                 /\ rows[i][5] # <<"removed">>
                 /\ rows[j][5] # <<"removed">> ) =>
                   \E p, q \in 1..Len(after) :
                       p < q /\ after[p].k = rows[i][4] /\ after[q].k = rows[j][4]

C5_AppendOnly ==
    \/ rows' = rows
    \/ Len(rows') = Len(rows) + 1 /\ SubSeq(rows', 1, Len(rows)) = rows

\* C5: rows are in commit order; within one file's rows added and changed
\* come before removed, in the iteration order of after; rows once
\* accumulated are never reordered or removed.
C5_RowOrder == []C5_Ordered /\ [][C5_AppendOnly]_vars

C5_Witness ==
    \E i, j, l \in 1..Len(rows) :
        /\ i < j /\ j < l
        /\ origin[i] = origin[j]
        /\ rows[i][5] # <<"removed">>
        /\ rows[j][5] = <<"removed">>
        /\ rows[l][1] # rows[j][1]

(***************************************************************************)
(* C6                                                                      *)
(***************************************************************************)

VersionSet ==
    {before[i].v : i \in 1..Len(before)} \cup {after[i].v : i \in 1..Len(after)}

Complementary(d1, d2) ==
    /\ Len(d1) <= 1
    /\ Len(d2) <= 1
    /\ d1 = <<>> <=> d2 = <<>>
    /\ d1 = <<<<"added">>>> <=> d2 = <<<<"removed">>>>
    /\ d1 = <<<<"removed">>>> <=> d2 = <<<<"added">>>>
    /\ \A x, y \in VersionSet :
           d1 = <<ChangedFromTo(x, y)>> <=> d2 = <<ChangedFromTo(y, x)>>

\* C6: when a commit takes pom.xml from A to B and the next one takes it back
\* from B to A, the two classifications are complementary for every key.
C6_Symmetry ==
    (FileDone /\ nfiles >= 2) =>
        \A k \in KeySet(before) \cup KeySet(after) :
            Complementary(DescsFor(nfiles - 1, k), DescsFor(nfiles, k))

C6_Witness ==
    /\ FileDone
    /\ nfiles >= 2
    /\ \E k1, k2 \in KeySet(before) \cup KeySet(after) :
           /\ DescsFor(nfiles - 1, k1) = <<<<"added">>>>
           /\ DescsFor(nfiles, k1) = <<<<"removed">>>>
           /\ DescsFor(nfiles - 1, k2) = <<ChangedFromTo(<<"1">>, <<"2">>)>>
           /\ DescsFor(nfiles, k2) = <<ChangedFromTo(<<"2">>, <<"1">>)>>

(***************************************************************************)
(* C7                                                                      *)
(***************************************************************************)

ExpectedLines ==
    <<Header>> \o
        [i \in 1..Len(rows) |->
            <<rows[i][1], "day " \o ToString(rows[i][2].day), rows[i][3],
              rows[i][4], rows[i][5]>>]

\* C7: a run in which the walker failed has no output file; the file exists
\* only once the traversal is over; a finished run's file is the header row
\* followed by the rows in accumulation order.
C7_OutputAfterTraversal ==
    /\ pc = "failed" => ~out.exists
    /\ out.exists => pc \in {"header", "write_rows", "done"}
    /\ pc = "done" => (out.exists /\ out.lines = ExpectedLines)

C7_Witness == pc = "failed" /\ Len(rows) >= 2 /\ ~out.exists

(***************************************************************************)
(* C8                                                                      *)
(***************************************************************************)

\* C8: the snapshot has one entry per key, whose version is that of the last
\* block declaring the key; two blocks that differ in group or artifact
\* identifier are entered under different keys.
C8_LastWinsNoCollapse ==
    pc = "parse_done" =>
        LET bs == BlocksOf(text) IN
        /\ \A p, q \in 1..Len(deps) : deps[p].k = deps[q].k => p = q
        /\ \A i \in 1..Len(bs) :
               (HasGroupAndArtifact(bs[i]) /\ LastForKey(bs, i)) =>
                   /\ DeclaredKey(bs[i]) \in KeySet(deps)
                   /\ Lookup(deps, DeclaredKey(bs[i])) = DeclaredVersion(bs[i])
        /\ \A i, j \in 1..Len(bs) :
               ( /\ HasGroupAndArtifact(bs[i])
                 /\ HasGroupAndArtifact(bs[j])
                 /\ \/ Strip(Search(bs[i], "groupId")[1])
                         # Strip(Search(bs[j], "groupId")[1])
                    \/ Strip(Search(bs[i], "artifactId")[1])
                         # Strip(Search(bs[j], "artifactId")[1]) ) =>
                   DeclaredKey(bs[i]) # DeclaredKey(bs[j])

(***************************************************************************)
(* C9                                                                      *)
(***************************************************************************)

RowsWith(d, desc) ==
    [i \in 1..Len(d) |->
        <<commit.hash, commit.author_date, commit.author, d[i].k, desc>>]

\* C9: a text that is null, empty or without any dependency block parses to
\* the empty snapshot; with both sides empty the file gives no row and its
\* commit is not in seen; with a null before text the file's rows are one
\* added per key of after; with a null after text one removed per key of
\* before.
C9_EmptyInputs ==
    /\ (pc \in {"after_loop", "before_loop"} \/ FileDone) =>
           /\ NoDependencyBlock(f.source_code_before) => before = <<>>
           /\ NoDependencyBlock(f.source_code) => after = <<>>
    /\ FileDone =>
           /\ (before = <<>> /\ after = <<>>) =>
                  (RowsOf(nfiles) = <<>> /\ commit.hash \notin seen)
           /\ f.source_code_before.null =>
                  RowsOf(nfiles) = RowsWith(after, <<"added">>)
           /\ f.source_code.null =>
                  RowsOf(nfiles) = RowsWith(before, <<"removed">>)

C9_Witness ==
    /\ FileDone
    /\ f.source_code.null
    /\ Len(before) = 2
    /\ Len(RowsOf(nfiles)) = 2

(***************************************************************************)
(* C10                                                                     *)
(***************************************************************************)

C10_Step ==
    rows' # rows =>
        LET e == rows'[Len(rows')]
            k == e[4]
            d == e[5]
        IN /\ k \in KeySet(before) \cup KeySet(after)
           /\ ~( /\ k \in KeySet(before)
                 /\ k \in KeySet(after)
                 /\ Lookup(before, k) = Lookup(after, k) )
           /\ IsChanged(d) =>
                  /\ k \in KeySet(before)
                  /\ k \in KeySet(after)
                  /\ Lookup(before, k) # NoneV
                  /\ Lookup(after, k) # NoneV
                  /\ d = <<"changed from ">> \o Lookup(before, k)
                             \o <<" to ">> \o Lookup(after, k)

\* C10: every row is appended for a key of the current file's before or
\* after snapshot, never for a key with equal versions on both sides, and a
\* changed row names two non-null, different versions.
C10_EventsWellFormed == [][C10_Step]_vars

C10_Witness ==
    \E i \in 1..Len(rows) :
        /\ IsChanged(rows[i][5])
        /\ \E b \in 1..Len(BlocksOf(f.source_code)) :
               /\ HasGroupAndArtifact(BlocksOf(f.source_code)[b])
               /\ Search(BlocksOf(f.source_code)[b], "version") = <<>>

====
